---- MODULE Spec2Model ----
(***************************************************************************)
(* Placementor backend: the learning-plan / daily-plan progression engine  *)
(* (services/learning-plan.service.ts, services/daily-plan.service.ts)     *)
(* and the collaborators completeDailyPlan reads: resource completion,     *)
(* quiz attempts and mock interviews.  One learning plan is modelled; a    *)
(* DailyPlan row is identified by its dayNumber, which is unique per plan  *)
(* (@@unique([learningPlanId, dayNumber])).                                *)
(***************************************************************************)
EXTENDS Integers, FiniteSets, Sequences, TLC

\* ------------------------------------------------------------------ bounds
MaxDuration == 3
MaxGateDuration == 2

\* ------------------------------------------------------------ input domains
Users == {"u1", "u2"}
Resources == {"r1", "r2"}
Interviews == {"m1", "m2"}
Questions == {"q1", "q2"}
Templates == {"t1", "t2"}
NONE == "none"
Absent == 0 - 1
NoPlan == [exists |-> FALSE]
NoInterview == "null"
Durations == 1 .. MaxDuration
DayNumbers == 1 .. MaxDuration
GateDays == 1 .. MaxGateDuration
ProgressInputs == {0, 50, 100}
Procs == {"p1", "p2"}
NewResources == {"r3", "r4", "r5"}
Titles == {"a", "b"}

VARIABLES
    plan,           \* the LearningPlan row, or NoPlan
    days,           \* DailyPlan rows of the plan: dayNumber -> row
    resources,      \* Resource rows: id -> the two DailyPlan foreign keys (0 = null)
    userResources,  \* UserResource rows: <<userId, resourceId>>
    quizzes,        \* dayNumbers of the DailyPlans that have a Quiz row
    quizAttempts,   \* QuizAttempt rows: [day, userId, isCompleted]
    mockInterviews, \* MockInterview rows: id -> [userId, status, isCompleted]
    responses,      \* InterviewResponse rows: <<mockInterviewId, questionId, n>>, the n-th row of the pair
    createdResources, \* Resource rows created through POST /api/resources: id -> title
    templates,      \* InterviewTemplate rows: id -> the DailyPlan foreign key (0 = null)
    reqs,           \* requests in flight: what each has read and written so far
    overlap,        \* the completeDay requests that overlapped, and the rows they started from
    last            \* outcome of the last request (what the controller sends)

vars == <<plan, days, resources, userResources, createdResources, quizzes, quizAttempts,
          mockInterviews, responses, templates, reqs, overlap, last>>
planVars == <<plan, days>>
resourceVars == <<resources, userResources, createdResources>>
quizVars == <<quizzes, quizAttempts>>
interviewVars == <<mockInterviews, responses, templates>>
requestVars == <<reqs, overlap>>

\* -------------------------------------------------------------- helpers
Min(a, b) == IF a < b THEN a ELSE b

\* Math.round((completed / total) * 100) for 0 <= completed, 0 < total
RoundPct(completed, total) == (200 * completed + total) \div (2 * total)

Ok(op, d, u) == [op |-> op, day |-> d, user |-> u, status |-> 200, msg |-> "ok"]
Err(op, d, u, st, m) == [op |-> op, day |-> d, user |-> u, status |-> st, msg |-> m]

DayExists(d) == plan.exists /\ d \in DOMAIN days

NewDayCompleted(n, unlocked) ==
    [isUnlocked |-> unlocked, isCompleted |-> TRUE, mockInterviewId |-> NoInterview]

\* tx.dailyPlan.create({ data: { dayNumber, isUnlocked, isCompleted: false } })
NewDay(n, unlocked) ==
    [isUnlocked |-> unlocked, isCompleted |-> FALSE, mockInterviewId |-> NoInterview]

\* a request slot with no request in flight
Idle ==
    [pc |-> "idle", user |-> NONE,
     day |-> 0,             \* dayNumber of the DailyPlan row the request read by id
     next |-> 0,            \* dayNumber of the nextDay row it found (0: none)
     gone |-> {},           \* rows among day/next deleted since the request read them
     locked |-> {},         \* rows written by its open transaction (row locks held)
     durationDays |-> 0,    \* durationDays as the request read it
     newDuration |-> 0,     \* updateData.durationDays
     isActive |-> << >>,    \* updateData.isActive
     currentDay |-> Absent, \* progressData.currentDay
     progress |-> Absent,   \* progressData.progress
     count |-> 0,           \* completedDaysCount
     interview |-> NoInterview, \* id of the MockInterview the request is about
     question |-> NONE]     \* data.questionId

\* no completeDay request has been followed yet
NoOverlap == [plan |-> NoPlan, days |-> << >>, ran |-> {}]

\* ------------------------------------------------------------------ Init
Init ==
    /\ plan = NoPlan
    /\ days = << >>
    /\ resources = [r \in Resources |-> [learningPlanDayId |-> 0, practicePlanDayId |-> 0]]
    /\ userResources = {}
    /\ createdResources = << >>
    /\ quizzes = {}
    /\ quizAttempts = {}
    /\ mockInterviews = << >>
    /\ responses = {}
    /\ templates = [t \in Templates |-> 0]
    /\ reqs = [p \in Procs |-> Idle]
    /\ overlap = NoOverlap
    /\ last = [op |-> "init", day |-> 0, user |-> NONE, status |-> 0, msg |-> "ok"]

\* -------------------------------------------------- createLearningPlan
CreatedDaysAllUnlocked(durationDays) ==
    [n \in 1 .. durationDays |-> NewDay(n, TRUE)]

\* for (day = 1; day <= durationDays; day++) tx.dailyPlan.create(...)
CreatedDays(durationDays) ==
    [n \in 1 .. durationDays |-> NewDay(n, n = 1)]

CreateLearningPlan(u, durationDays) ==
    /\ ~plan.exists
    /\ plan' = [exists |-> TRUE, userId |-> u, durationDays |-> durationDays,
                isActive |-> TRUE, currentDay |-> 1, progress |-> 0]
    /\ days' = CreatedDays(durationDays)
    /\ last' = [Ok("createPlan", durationDays, u) EXCEPT !.status = 201]
    /\ UNCHANGED <<resourceVars, quizVars, interviewVars, requestVars>>

\* ---------------------------------------- dailyPlanService.unlockDailyPlan
PreviousDayNeverBlocks(d) == FALSE

\* if (dayNumber > 1) { previousDay = findFirst(...); previousDay && !previousDay.isCompleted }
PreviousDayBlocks(d) ==
    d > 1 /\ (d - 1) \in DOMAIN days /\ ~days[d - 1].isCompleted

UnlockDailyPlanUngated(d, u) ==
    /\ UNCHANGED <<plan, resourceVars, quizVars, interviewVars, requestVars>>
    /\ IF ~DayExists(d)
       THEN /\ last' = Err("unlockDay", d, u, 404, "NotFound")
            /\ UNCHANGED days
       ELSE IF plan.userId # u
       THEN /\ last' = Err("unlockDay", d, u, 403, "Forbidden")
            /\ UNCHANGED days
       ELSE /\ days' = [days EXCEPT ![d].isUnlocked = TRUE]
            /\ last' = Ok("unlockDay", d, u)

UnlockDailyPlan(d, u) ==
    /\ UNCHANGED <<plan, resourceVars, quizVars, interviewVars, requestVars>>
    /\ IF ~DayExists(d)
       THEN /\ last' = Err("unlockDay", d, u, 404, "NotFound")
            /\ UNCHANGED days
       ELSE IF plan.userId # u
       THEN /\ last' = Err("unlockDay", d, u, 403, "Forbidden")
            /\ UNCHANGED days
       ELSE IF PreviousDayBlocks(d)
       THEN /\ last' = Err("unlockDay", d, u, 400, "PrevNotCompleted")
            /\ UNCHANGED days
       ELSE /\ days' = [days EXCEPT ![d].isUnlocked = TRUE]
            /\ last' = Ok("unlockDay", d, u)

\* -------------------------------------- dailyPlanService.completeDailyPlan
\* the day's learningResources / practiceResources relations (lists of rows)
LearningResourceIds(d) == {r \in Resources : resources[r].learningPlanDayId = d}
PracticeResourceIds(d) == {r \in Resources : resources[r].practicePlanDayId = d}

\* userResource.findMany({userId, resourceId in [...learning, ...practice]})
CompletedResources(d, u) ==
    {ur \in userResources :
        ur[1] = u /\ ur[2] \in (LearningResourceIds(d) \cup PracticeResourceIds(d))}

AllResourcesCompleted(d, u) ==
    Cardinality(CompletedResources(d, u)) =
        Cardinality(LearningResourceIds(d)) + Cardinality(PracticeResourceIds(d))

QuizCompletedByAnyUser(d, u) ==
    \/ d \notin quizzes
    \/ \E a \in quizAttempts : a.day = d /\ a.isCompleted

\* quiz.attempts filtered by where: { userId }
QuizCompleted(d, u) ==
    \/ d \notin quizzes
    \/ \E a \in quizAttempts : a.day = d /\ a.userId = u /\ a.isCompleted

\* include mockInterview: { where: { userId } }: the relation is null unless
\* the linked interview belongs to the requester
IncludedMockInterview(d, u) ==
    IF /\ days[d].mockInterviewId # NoInterview
       /\ days[d].mockInterviewId \in DOMAIN mockInterviews
       /\ mockInterviews[days[d].mockInterviewId].userId = u
    THEN days[d].mockInterviewId
    ELSE NoInterview

InterviewCompleted(d, u) ==
    \/ IncludedMockInterview(d, u) = NoInterview
    \/ mockInterviews[IncludedMockInterview(d, u)].isCompleted

CompleteTxWithoutUnlock(d) ==
    LET marked == [days EXCEPT ![d].isCompleted = TRUE]
        totalDays == plan.durationDays
        completedDaysCount == Cardinality({n \in DOMAIN marked : marked[n].isCompleted})
    IN /\ days' = marked
       /\ plan' = [plan EXCEPT !.progress = RoundPct(completedDaysCount, totalDays),
                               !.currentDay = Min(d + 1, totalDays),
                               !.isActive = (completedDaysCount < totalDays)]

\* the $transaction body: complete the day, unlock the next, recompute the plan
CompleteTx(d) ==
    LET marked == [days EXCEPT ![d].isCompleted = TRUE]
        totalDays == plan.durationDays
        unlocked == IF d < totalDays /\ (d + 1) \in DOMAIN marked
                    THEN [marked EXCEPT ![d + 1].isUnlocked = TRUE]
                    ELSE marked
        completedDaysCount == Cardinality({n \in DOMAIN unlocked : unlocked[n].isCompleted})
    IN /\ days' = unlocked
       /\ plan' = [plan EXCEPT !.progress = RoundPct(completedDaysCount, totalDays),
                               !.currentDay = Min(d + 1, totalDays),
                               !.isActive = (completedDaysCount < totalDays)]

DayLockedIgnored(d) == FALSE

\* if (!dailyPlan.isUnlocked) throw 400
DayLocked(d) == ~days[d].isUnlocked

CompleteDailyPlan(d, u) ==
    /\ UNCHANGED <<resourceVars, quizVars, interviewVars, requestVars>>
    /\ IF ~DayExists(d)
       THEN /\ last' = Err("completeDay", d, u, 404, "NotFound")
            /\ UNCHANGED planVars
       ELSE IF plan.userId # u
       THEN /\ last' = Err("completeDay", d, u, 403, "Forbidden")
            /\ UNCHANGED planVars
       ELSE IF DayLocked(d)
       THEN /\ last' = Err("completeDay", d, u, 400, "Locked")
            /\ UNCHANGED planVars
       ELSE IF \/ ~AllResourcesCompleted(d, u)
               \/ ~QuizCompleted(d, u)
               \/ ~InterviewCompleted(d, u)
       THEN /\ last' = Err("completeDay", d, u, 400, "GatesNotMet")
            /\ UNCHANGED planVars
       ELSE /\ CompleteTx(d)
            /\ last' = Ok("completeDay", d, u)

\* ----------------------------------- learningPlanService.updateLearningPlan
\* referential actions of the schema when DailyPlan rows are deleted:
\* Resource foreign keys are set to null, the day's Quiz (and its attempts) cascades
ResourcesAfterDelete(gone) ==
    [r \in Resources |->
        [learningPlanDayId |-> IF resources[r].learningPlanDayId \in gone
                               THEN 0 ELSE resources[r].learningPlanDayId,
         practicePlanDayId |-> IF resources[r].practicePlanDayId \in gone
                               THEN 0 ELSE resources[r].practicePlanDayId]]

TemplatesAfterDelete(gone) ==
    [t \in Templates |-> IF templates[t] \in gone THEN 0 ELSE templates[t]]

\* data: { ...updateData }: the fields present in the request body
ApplyUpdateData(p, durationDays, isActive) ==
    [p EXCEPT !.durationDays = IF durationDays = Absent THEN @ ELSE durationDays,
              !.isActive = IF isActive = << >> THEN @ ELSE isActive[1]]

HandleDurationChange(u, oldDuration, newDuration, isActive) ==
    LET added == (oldDuration + 1) .. newDuration
        gone == {n \in DOMAIN days : n > newDuration}
    IN IF newDuration > oldDuration /\ added \cap DOMAIN days # {}
       THEN \* unique (learningPlanId, dayNumber) violated: the transaction rolls back
            /\ last' = Err("updatePlan", newDuration, u, 500, "Internal")
            /\ UNCHANGED <<planVars, resourceVars, quizVars, templates>>
       ELSE /\ plan' = ApplyUpdateData(plan, newDuration, isActive)
            /\ days' = IF newDuration > oldDuration
                       THEN [n \in (DOMAIN days) \cup added |->
                                IF n \in DOMAIN days THEN days[n] ELSE NewDay(n, FALSE)]
                       ELSE [n \in (DOMAIN days) \ gone |-> days[n]]
            /\ resources' = ResourcesAfterDelete(IF newDuration > oldDuration THEN {} ELSE gone)
            /\ quizzes' = IF newDuration > oldDuration THEN quizzes ELSE quizzes \ gone
            /\ quizAttempts' = IF newDuration > oldDuration THEN quizAttempts
                               ELSE {a \in quizAttempts : a.day \notin gone}
            /\ templates' = TemplatesAfterDelete(IF newDuration > oldDuration THEN {} ELSE gone)
            /\ UNCHANGED <<userResources, createdResources>>
            /\ last' = Ok("updatePlan", newDuration, u)

UpdateLearningPlan(u, durationDays, isActive) ==
    /\ UNCHANGED <<mockInterviews, responses, requestVars>>
    /\ IF ~plan.exists
       THEN /\ last' = Err("updatePlan", durationDays, u, 404, "NotFound")
            /\ UNCHANGED <<planVars, resourceVars, quizVars, templates>>
       ELSE IF plan.userId # u
       THEN /\ last' = Err("updatePlan", durationDays, u, 403, "Forbidden")
            /\ UNCHANGED <<planVars, resourceVars, quizVars, templates>>
       ELSE IF durationDays # Absent /\ durationDays # plan.durationDays
       THEN HandleDurationChange(u, plan.durationDays, durationDays, isActive)
       ELSE /\ plan' = ApplyUpdateData(plan, durationDays, isActive)
            /\ last' = Ok("updatePlan", durationDays, u)
            /\ UNCHANGED <<days, resourceVars, quizVars, templates>>

\* --------------------------- learningPlanService.updateLearningPlanProgress
UnlockOnlyDayNumber(ds, dayNumber) ==
    [n \in DOMAIN ds |-> [ds[n] EXCEPT !.isUnlocked = (n = dayNumber)]]

\* the private unlockDailyPlan(learningPlanId, dayNumber): updateMany
UnlockByDayNumber(ds, dayNumber) ==
    IF dayNumber \in DOMAIN ds THEN [ds EXCEPT ![dayNumber].isUnlocked = TRUE] ELSE ds

UpdateLearningPlanProgressUnchecked(u, currentDay, progress) ==
    /\ UNCHANGED <<resourceVars, quizVars, interviewVars, requestVars>>
    /\ IF ~plan.exists
       THEN /\ last' = Err("updateProgress", currentDay, u, 404, "NotFound")
            /\ UNCHANGED planVars
       ELSE IF plan.userId # u
       THEN /\ last' = Err("updateProgress", currentDay, u, 403, "Forbidden")
            /\ UNCHANGED planVars
       ELSE /\ days' = IF currentDay # Absent /\ currentDay > plan.currentDay
                       THEN UnlockByDayNumber(days, currentDay)
                       ELSE days
            /\ plan' = [plan EXCEPT
                          !.currentDay = IF currentDay = Absent THEN @ ELSE currentDay,
                          !.progress = IF progress = Absent THEN @ ELSE progress]
            /\ last' = Ok("updateProgress", currentDay, u)

UpdateLearningPlanProgress(u, currentDay, progress) ==
    /\ UNCHANGED <<resourceVars, quizVars, interviewVars, requestVars>>
    /\ IF ~plan.exists
       THEN /\ last' = Err("updateProgress", currentDay, u, 404, "NotFound")
            /\ UNCHANGED planVars
       ELSE IF plan.userId # u
       THEN /\ last' = Err("updateProgress", currentDay, u, 403, "Forbidden")
            /\ UNCHANGED planVars
       ELSE IF currentDay # Absent /\ (currentDay < 1 \/ currentDay > plan.durationDays)
       THEN /\ last' = Err("updateProgress", currentDay, u, 400, "Validation")
            /\ UNCHANGED planVars
       ELSE /\ days' = IF currentDay # Absent /\ currentDay > plan.currentDay
                       THEN UnlockByDayNumber(days, currentDay)
                       ELSE days
            /\ plan' = [plan EXCEPT
                          !.currentDay = IF currentDay = Absent THEN @ ELSE currentDay,
                          !.progress = IF progress = Absent THEN @ ELSE progress]
            /\ last' = Ok("updateProgress", currentDay, u)

\* PATCH /api/learning-plans/:id/progress: validateRequest(updateProgressSchema)
\* answers 400 before the controller runs
UpdateProgressSchemaOk(currentDay, progress) ==
    /\ currentDay = Absent \/ currentDay >= 1
    /\ progress = Absent \/ (0 <= progress /\ progress <= 100)
    /\ ~(currentDay = Absent /\ progress = Absent)

UpdateProgressPlanOnly(u, currentDay, progress) ==
    IF ~UpdateProgressSchemaOk(currentDay, progress)
    THEN /\ last' = Err("updateProgress", currentDay, u, 400, "ValidationFailed")
         /\ UNCHANGED <<planVars, resourceVars, quizVars, interviewVars, requestVars>>
    ELSE IF /\ plan.exists
            /\ plan.userId = u
            /\ currentDay # Absent
            /\ currentDay <= plan.durationDays
    THEN /\ plan' = [plan EXCEPT !.currentDay = currentDay,
                                 !.progress = IF progress = Absent THEN @ ELSE progress]
         /\ last' = Ok("updateProgress", currentDay, u)
         /\ UNCHANGED <<days, resourceVars, quizVars, interviewVars, requestVars>>
    ELSE UpdateLearningPlanProgress(u, currentDay, progress)

UpdateProgress(u, currentDay, progress) ==
    IF UpdateProgressSchemaOk(currentDay, progress)
    THEN UpdateLearningPlanProgress(u, currentDay, progress)
    ELSE /\ last' = Err("updateProgress", currentDay, u, 400, "ValidationFailed")
         /\ UNCHANGED <<planVars, resourceVars, quizVars, interviewVars, requestVars>>

\* --------------------------------- learningPlanService.deleteLearningPlan
\* the delete cascades to the DailyPlan rows, and from them to quizzes and
\* attempts; Resource and InterviewTemplate foreign keys are set to null
DeleteLearningPlanByAnyone(u) ==
    /\ UNCHANGED <<userResources, createdResources, mockInterviews, responses, requestVars>>
    /\ IF ~plan.exists
       THEN /\ last' = Err("deletePlan", 0, u, 404, "NotFound")
            /\ UNCHANGED <<planVars, resources, quizVars, templates>>
       ELSE /\ plan' = NoPlan
            /\ days' = << >>
            /\ resources' = ResourcesAfterDelete(DOMAIN days)
            /\ quizzes' = quizzes \ DOMAIN days
            /\ quizAttempts' = {a \in quizAttempts : a.day \notin DOMAIN days}
            /\ templates' = TemplatesAfterDelete(DOMAIN days)
            /\ last' = Ok("deletePlan", 0, u)

DeleteLearningPlan(u) ==
    /\ UNCHANGED <<userResources, createdResources, mockInterviews, responses, requestVars>>
    /\ IF ~plan.exists
       THEN /\ last' = Err("deletePlan", 0, u, 404, "NotFound")
            /\ UNCHANGED <<planVars, resources, quizVars, templates>>
       ELSE IF plan.userId # u
       THEN /\ last' = Err("deletePlan", 0, u, 403, "Forbidden")
            /\ UNCHANGED <<planVars, resources, quizVars, templates>>
       ELSE /\ plan' = NoPlan
            /\ days' = << >>
            /\ resources' = ResourcesAfterDelete(DOMAIN days)
            /\ quizzes' = quizzes \ DOMAIN days
            /\ quizAttempts' = {a \in quizAttempts : a.day \notin DOMAIN days}
            /\ templates' = TemplatesAfterDelete(DOMAIN days)
            /\ last' = Ok("deletePlan", 0, u)

\* -------------------------------- learningPlanService.getLearningPlanStats
\* Resource.type of the modelled Resource rows
ResourceTypes == {"VIDEO", "BLOG", "LEETCODE"}
ResourceTypeOf == [r \in Resources |-> IF r = "r1" THEN "LEETCODE" ELSE "VIDEO"]

CountAll(ids, ts) == Cardinality(ids)

\* the resources of the types ts in one relation of the day (a list of rows)
CountIn(ids, ts) == Cardinality({r \in ids : ResourceTypeOf[r] \in ts})

\* for (day of dailyPlans) for (resource of [...learningResources, ...practiceResources])
\* counter++ when resource.type is one of ts
RECURSIVE ResourceCount(_, _)
ResourceCount(ds, ts) ==
    IF ds = {} THEN 0
    ELSE LET d == CHOOSE x \in ds : TRUE
         IN CountIn(LearningResourceIds(d), ts) + CountIn(PracticeResourceIds(d), ts)
            + ResourceCount(ds \ {d}, ts)

\* the stats object (the fields computed from dates are left out)
Stats ==
    [totalDays |-> plan.durationDays,
     completedDays |-> Cardinality({n \in DOMAIN days : days[n].isCompleted}),
     currentDay |-> plan.currentDay,
     progress |-> plan.progress,
     resources |-> [videos |-> ResourceCount(DOMAIN days, {"VIDEO"}),
                    blogs |-> ResourceCount(DOMAIN days, {"BLOG"}),
                    leetcode |-> ResourceCount(DOMAIN days, {"LEETCODE"}),
                    total |-> ResourceCount(DOMAIN days, ResourceTypes)],
     isActive |-> plan.isActive]

GetLearningPlanStats(u) ==
    /\ UNCHANGED <<planVars, resourceVars, quizVars, interviewVars, requestVars>>
    /\ IF ~plan.exists
       THEN last' = Err("stats", 0, u, 404, "NotFound")
       ELSE IF plan.userId # u
       THEN last' = Err("stats", 0, u, 403, "Forbidden")
       ELSE last' = Ok("stats", 0, u) @@ [body |-> Stats]

\* ------------------------------- dailyPlanService.assignResourcesToDailyPlan
\* the $transaction array: clear both relations of the day, then set the new ones
AssignedResources(d, learningResourceIds, practiceResourceIds) ==
    [r \in Resources |->
        [learningPlanDayId |-> IF r \in learningResourceIds THEN d
                               ELSE IF resources[r].learningPlanDayId = d THEN 0
                               ELSE resources[r].learningPlanDayId,
         practicePlanDayId |-> IF r \in practiceResourceIds THEN d
                               ELSE IF resources[r].practicePlanDayId = d THEN 0
                               ELSE resources[r].practicePlanDayId]]

AssignResourcesToDailyPlan(d, learningResourceIds, practiceResourceIds) ==
    /\ UNCHANGED <<planVars, userResources, createdResources, quizVars, interviewVars, requestVars>>
    /\ IF ~DayExists(d)
       THEN /\ last' = Err("assignResources", 0, NONE, 404, "NotFound")
            /\ UNCHANGED resources
       ELSE /\ resources' = AssignedResources(d, learningResourceIds, practiceResourceIds)
            /\ last' = Ok("assignResources", 0, NONE)

\* ------------------------------------------ resourceService.completeResource
CompleteResource(r, u) ==
    /\ UNCHANGED <<planVars, resources, createdResources, quizVars, interviewVars, requestVars>>
    /\ IF <<u, r>> \in userResources
       THEN /\ last' = Err("completeResource", 0, NONE, 400, "AlreadyCompleted")
            /\ UNCHANGED userResources
       ELSE /\ userResources' = userResources \cup {<<u, r>>}
            /\ last' = Ok("completeResource", 0, NONE)

\* ------------------------------------------------- the resource routes
\* User.role of the modelled users
UserRole == [u \in Users |-> IF u = "u2" THEN "ADMIN" ELSE "USER"]

\* the isAdmin middleware: 403 unless req.user.role === 'ADMIN'
IsAdmin(u) == UserRole[u] = "ADMIN"

\* POST /api/resources: isAuthenticated, validateRequest, createResource
\* (isAdmin is commented out in the route)
CreateResource(u, r, title) ==
    /\ r \notin DOMAIN createdResources
    /\ createdResources' = [x \in (DOMAIN createdResources) \cup {r} |->
                                IF x = r THEN title ELSE createdResources[x]]
    /\ last' = [Ok("createResource", 0, u) EXCEPT !.status = 201]
    /\ UNCHANGED <<planVars, resources, userResources, quizVars, interviewVars, requestVars>>

\* PUT /api/resources/:id: isAuthenticated, isAdmin, validateRequest, updateResource
UpdateResource(u, r, title) ==
    /\ UNCHANGED <<planVars, resources, userResources, quizVars, interviewVars, requestVars>>
    /\ IF ~IsAdmin(u)
       THEN /\ last' = Err("updateResource", 0, u, 403, "Forbidden")
            /\ UNCHANGED createdResources
       ELSE IF r \notin DOMAIN createdResources
       THEN /\ last' = Err("updateResource", 0, u, 404, "NotFound")
            /\ UNCHANGED createdResources
       ELSE /\ createdResources' = [createdResources EXCEPT ![r] = title]
            /\ last' = Ok("updateResource", 0, u)

\* DELETE /api/resources/:id: isAuthenticated, isAdmin, validateRequest, deleteResource
DeleteResource(u, r) ==
    /\ UNCHANGED <<planVars, resources, userResources, quizVars, interviewVars, requestVars>>
    /\ IF ~IsAdmin(u)
       THEN /\ last' = Err("deleteResource", 0, u, 403, "Forbidden")
            /\ UNCHANGED createdResources
       ELSE IF r \notin DOMAIN createdResources
       THEN /\ last' = Err("deleteResource", 0, u, 404, "NotFound")
            /\ UNCHANGED createdResources
       ELSE /\ createdResources' = [x \in (DOMAIN createdResources) \ {r} |-> createdResources[x]]
            /\ last' = Ok("deleteResource", 0, u)

\* --------------------------------------- dailyPlanService.addQuizToDailyPlan
AddQuizToDailyPlan(d) ==
    /\ UNCHANGED <<planVars, resourceVars, quizAttempts, interviewVars, requestVars>>
    /\ IF ~DayExists(d)
       THEN /\ last' = Err("addQuiz", 0, NONE, 404, "NotFound")
            /\ UNCHANGED quizzes
       ELSE IF d \in quizzes
       THEN /\ last' = Err("addQuiz", 0, NONE, 400, "AlreadyHasQuiz")
            /\ UNCHANGED quizzes
       ELSE /\ quizzes' = quizzes \cup {d}
            /\ last' = [Ok("addQuiz", 0, NONE) EXCEPT !.status = 201]

\* a QuizAttempt row of user u on the quiz of day d is written (the quiz
\* collaborator is outside the engine; only the row matters to completeDay)
RecordQuizAttempt(d, u, isCompleted) ==
    /\ d \in quizzes
    /\ quizAttempts' = quizAttempts \cup {[day |-> d, userId |-> u, isCompleted |-> isCompleted]}
    /\ last' = Ok("quizAttempt", 0, NONE)
    /\ UNCHANGED <<planVars, resourceVars, quizzes, interviewVars, requestVars>>

\* ------------------------------------------------------- interviewService
\* interviewResponse rows of one interview and question
ResponsesOf(m, q) == {r \in responses : r[1] = m /\ r[2] = q}

\* interviewResponse.findFirst({ where: { mockInterviewId, questionId } }) finds a row
Answered(m, q) == ResponsesOf(m, q) # {}

ScheduleInterview(m, u) ==
    /\ m \notin DOMAIN mockInterviews
    /\ mockInterviews' = [x \in (DOMAIN mockInterviews) \cup {m} |->
                             IF x = m
                             THEN [userId |-> u, status |-> "SCHEDULED", isCompleted |-> FALSE]
                             ELSE mockInterviews[x]]
    /\ last' = [Ok("scheduleInterview", 0, NONE) EXCEPT !.status = 201]
    /\ UNCHANGED <<planVars, resourceVars, quizVars, responses, templates, requestVars>>

StartInterview(m, u) ==
    /\ UNCHANGED <<planVars, resourceVars, quizVars, responses, templates, requestVars>>
    /\ IF m \notin DOMAIN mockInterviews
       THEN /\ last' = Err("startInterview", 0, NONE, 404, "NotFound")
            /\ UNCHANGED mockInterviews
       ELSE IF mockInterviews[m].userId # u
       THEN /\ last' = Err("startInterview", 0, NONE, 403, "Forbidden")
            /\ UNCHANGED mockInterviews
       ELSE IF mockInterviews[m].status # "SCHEDULED"
       THEN /\ last' = Err("startInterview", 0, NONE, 400, "BadStatus")
            /\ UNCHANGED mockInterviews
       ELSE /\ mockInterviews' = [mockInterviews EXCEPT ![m].status = "IN_PROGRESS"]
            /\ last' = Ok("startInterview", 0, NONE)

SaveInterviewResponse(m, u, q) ==
    /\ UNCHANGED <<planVars, resourceVars, quizVars, mockInterviews, templates, requestVars>>
    /\ IF m \notin DOMAIN mockInterviews
       THEN /\ last' = Err("saveResponse", 0, NONE, 404, "NotFound")
            /\ UNCHANGED responses
       ELSE IF mockInterviews[m].userId # u
       THEN /\ last' = Err("saveResponse", 0, NONE, 403, "Forbidden")
            /\ UNCHANGED responses
       ELSE IF mockInterviews[m].status # "IN_PROGRESS"
       THEN /\ last' = Err("saveResponse", 0, NONE, 400, "BadStatus")
            /\ UNCHANGED responses
       ELSE /\ responses' = IF Answered(m, q) THEN responses
                             ELSE responses \cup {<<m, q, 1>>}
            /\ last' = Ok("saveResponse", 0, NONE)

CompleteInterviewUnchecked(m, u) ==
    /\ UNCHANGED <<planVars, resourceVars, quizVars, responses, templates, requestVars>>
    /\ IF m \notin DOMAIN mockInterviews
       THEN /\ last' = Err("completeInterview", 0, NONE, 404, "NotFound")
            /\ UNCHANGED mockInterviews
       ELSE IF mockInterviews[m].userId # u
       THEN /\ last' = Err("completeInterview", 0, NONE, 403, "Forbidden")
            /\ UNCHANGED mockInterviews
       ELSE IF mockInterviews[m].status # "IN_PROGRESS"
       THEN /\ last' = Err("completeInterview", 0, NONE, 400, "BadStatus")
            /\ UNCHANGED mockInterviews
       ELSE /\ mockInterviews' = [mockInterviews EXCEPT ![m].status = "COMPLETED",
                                                        ![m].isCompleted = TRUE]
            /\ last' = Ok("completeInterview", 0, NONE)

CompleteInterview(m, u) ==
    /\ UNCHANGED <<planVars, resourceVars, quizVars, responses, templates, requestVars>>
    /\ IF m \notin DOMAIN mockInterviews
       THEN /\ last' = Err("completeInterview", 0, NONE, 404, "NotFound")
            /\ UNCHANGED mockInterviews
       ELSE IF mockInterviews[m].userId # u
       THEN /\ last' = Err("completeInterview", 0, NONE, 403, "Forbidden")
            /\ UNCHANGED mockInterviews
       ELSE IF mockInterviews[m].status # "IN_PROGRESS"
       THEN /\ last' = Err("completeInterview", 0, NONE, 400, "BadStatus")
            /\ UNCHANGED mockInterviews
       ELSE IF {q \in Questions : ~Answered(m, q)} # {}
       THEN /\ last' = Err("completeInterview", 0, NONE, 400, "MissingAnswers")
            /\ UNCHANGED mockInterviews
       ELSE /\ mockInterviews' = [mockInterviews EXCEPT ![m].status = "COMPLETED",
                                                        ![m].isCompleted = TRUE]
            /\ last' = Ok("completeInterview", 0, NONE)

\* ------------------------------ dailyPlanService.addInterviewToDailyPlan
\* links an InterviewTemplate to the day; dailyPlanId is unique among templates
AddInterviewToDailyPlan(d, t) ==
    /\ UNCHANGED <<planVars, resourceVars, quizVars, mockInterviews, responses, requestVars>>
    /\ IF ~DayExists(d)
       THEN /\ last' = Err("addInterview", 0, NONE, 404, "NotFound")
            /\ UNCHANGED templates
       ELSE IF t \notin Templates
       THEN /\ last' = Err("addInterview", 0, NONE, 404, "TemplateNotFound")
            /\ UNCHANGED templates
       ELSE IF \E x \in Templates \ {t} : templates[x] = d
       THEN /\ last' = Err("addInterview", 0, NONE, 500, "Internal")
            /\ UNCHANGED templates
       ELSE /\ templates' = [templates EXCEPT ![t] = d]
            /\ last' = Ok("addInterview", 0, NONE)

\* DailyPlan.mockInterviewId is set to an existing MockInterview (the column
\* is written outside the services; completeDailyPlan only reads it)
LinkMockInterview(d, m) ==
    /\ DayExists(d)
    /\ m \in DOMAIN mockInterviews
    /\ days' = [days EXCEPT ![d].mockInterviewId = m]
    /\ last' = Ok("linkInterview", 0, NONE)
    /\ UNCHANGED <<plan, resourceVars, quizVars, interviewVars, requestVars>>

\* ================================================= concurrent requests
\* Each handler below is one of the handlers above cut at its awaits: the
\* reads before a transaction, and the statements of the transaction.  The
\* database is PostgreSQL at its default isolation (READ COMMITTED): a
\* statement sees the rows committed before it and the writes of its own
\* transaction, and an update of a row written by another open transaction
\* waits for that transaction to end.
LockedByOthers(p) == UNION {reqs[q].locked : q \in Procs \ {p}}

AfterDeleteKeepsIds(p, deleted) ==
    [q \in Procs |-> IF q = p THEN Idle ELSE reqs[q]]

\* rows read by id by the other requests lose their id when they are deleted
AfterDelete(p, deleted) ==
    [q \in Procs |->
        IF q = p THEN Idle
        ELSE [reqs[q] EXCEPT !.gone = @ \cup (deleted \cap {reqs[q].day, reqs[q].next})]]

\* updateLearningPlan up to the call of handleDurationChange
UpdateLearningPlanRead(p, u, durationDays, isActive) ==
    /\ reqs[p].pc = "idle"
    /\ UNCHANGED <<days, resourceVars, quizVars, interviewVars, overlap>>
    /\ IF ~plan.exists
       THEN /\ last' = Err("updatePlan", durationDays, u, 404, "NotFound")
            /\ UNCHANGED <<plan, reqs>>
       ELSE IF plan.userId # u
       THEN /\ last' = Err("updatePlan", durationDays, u, 403, "Forbidden")
            /\ UNCHANGED <<plan, reqs>>
       ELSE IF durationDays # Absent /\ durationDays # plan.durationDays
       THEN /\ reqs' = [reqs EXCEPT ![p] = [Idle EXCEPT !.pc = "handleDurationChange",
                                                        !.user = u,
                                                        !.durationDays = plan.durationDays,
                                                        !.newDuration = durationDays,
                                                        !.isActive = isActive]]
            /\ UNCHANGED <<plan, last>>
       ELSE /\ plan' = ApplyUpdateData(plan, durationDays, isActive)
            /\ last' = Ok("updatePlan", durationDays, u)
            /\ UNCHANGED reqs

\* the transaction of handleDurationChange, with the oldDuration read before
\* it.  Its writes depend on nothing it reads, so they take effect together
\* at its commit; deleteMany waits for the open transactions that wrote a
\* row it deletes.
HandleDurationChangeTx(p) ==
    /\ reqs[p].pc = "handleDurationChange"
    /\ {n \in DOMAIN days : n > reqs[p].newDuration} \cap LockedByOthers(p) = {}
    /\ HandleDurationChange(reqs[p].user, reqs[p].durationDays, reqs[p].newDuration,
                            reqs[p].isActive)
    /\ reqs' = AfterDelete(p, (DOMAIN days) \ (DOMAIN days'))
    /\ UNCHANGED <<mockInterviews, responses, overlap>>

\* completeDailyPlan up to the call of $transaction: findUnique with its
\* includes, the three early returns, userResource.findMany and the gates
CompleteRead(p, d, u) ==
    /\ reqs[p].pc = "idle"
    /\ UNCHANGED <<planVars, resourceVars, quizVars, interviewVars>>
    /\ IF ~DayExists(d)
       THEN /\ last' = Err("completeDay", d, u, 404, "NotFound")
            /\ UNCHANGED reqs
       ELSE IF plan.userId # u
       THEN /\ last' = Err("completeDay", d, u, 403, "Forbidden")
            /\ UNCHANGED reqs
       ELSE IF DayLocked(d)
       THEN /\ last' = Err("completeDay", d, u, 400, "Locked")
            /\ UNCHANGED reqs
       ELSE IF \/ ~AllResourcesCompleted(d, u)
               \/ ~QuizCompleted(d, u)
               \/ ~InterviewCompleted(d, u)
       THEN /\ last' = Err("completeDay", d, u, 400, "GatesNotMet")
            /\ UNCHANGED reqs
       ELSE /\ reqs' = [reqs EXCEPT ![p] = [Idle EXCEPT !.pc = "completeMark",
                                                        !.user = u,
                                                        !.day = d,
                                                        !.durationDays = plan.durationDays]]
            /\ UNCHANGED last

CompleteDailyPlanRead(p, d, u) ==
    /\ CompleteRead(p, d, u)
    /\ UNCHANGED overlap

\* the same request, followed from the moment the plan was last at rest
RacingCompleteRead(p, d, u) ==
    /\ \/ \A q \in Procs : reqs[q].pc = "idle"
       \/ \A r \in overlap.ran : r[1] # p
    /\ CompleteRead(p, d, u)
    /\ overlap' = IF \A q \in Procs : reqs[q].pc = "idle"
                  THEN [plan |-> plan, days |-> days, ran |-> {<<p, d, u>>}]
                  ELSE [overlap EXCEPT !.ran = @ \cup {<<p, d, u>>}]

\* the transaction is rolled back and the controller answers 500
RolledBack(p) ==
    /\ reqs' = [reqs EXCEPT ![p] = Idle]
    /\ last' = Err("completeDay", reqs[p].day, reqs[p].user, 500, "Internal")

\* tx.dailyPlan.update({ where: { id }, data: { isCompleted: true } })
CompleteMark(p) ==
    /\ reqs[p].pc = "completeMark"
    /\ UNCHANGED <<planVars, resourceVars, quizVars, interviewVars, overlap>>
    /\ IF reqs[p].day \in reqs[p].gone
       THEN RolledBack(p)
       ELSE /\ reqs[p].day \notin LockedByOthers(p)
            /\ reqs' = [reqs EXCEPT ![p].locked = @ \cup {reqs[p].day},
                                    ![p].pc = "completeFindNext"]
            /\ UNCHANGED last

\* if (dayNumber < durationDays) nextDay = tx.dailyPlan.findFirst(...)
CompleteFindNext(p) ==
    /\ reqs[p].pc = "completeFindNext"
    /\ UNCHANGED <<planVars, resourceVars, quizVars, interviewVars, overlap, last>>
    /\ reqs' = IF /\ reqs[p].day < reqs[p].durationDays
                  /\ (reqs[p].day + 1) \in DOMAIN days
               THEN [reqs EXCEPT ![p].next = reqs[p].day + 1,
                                 ![p].pc = "completeUnlockNext"]
               ELSE [reqs EXCEPT ![p].pc = "completeCount"]

\* tx.dailyPlan.update({ where: { id: nextDay.id }, data: { isUnlocked: true } })
CompleteUnlockNext(p) ==
    /\ reqs[p].pc = "completeUnlockNext"
    /\ UNCHANGED <<planVars, resourceVars, quizVars, interviewVars, overlap>>
    /\ IF reqs[p].next \in reqs[p].gone
       THEN RolledBack(p)
       ELSE /\ reqs[p].next \notin LockedByOthers(p)
            /\ reqs' = [reqs EXCEPT ![p].locked = @ \cup {reqs[p].next},
                                    ![p].pc = "completeCount"]
            /\ UNCHANGED last

\* tx.dailyPlan.count({ where: { learningPlanId, isCompleted: true } }): the
\* committed rows and the request's own uncommitted mark
CompleteCount(p) ==
    /\ reqs[p].pc = "completeCount"
    /\ UNCHANGED <<planVars, resourceVars, quizVars, interviewVars, overlap, last>>
    /\ reqs' = [reqs EXCEPT
                  ![p].count = Cardinality({n \in DOMAIN days :
                                               days[n].isCompleted \/ n = reqs[p].day}),
                  ![p].pc = "completeCommit"]

\* tx.learningPlan.update(...) and the commit: the writes of the transaction
\* become visible together
CompleteCommit(p) ==
    LET r == reqs[p]
        totalDays == r.durationDays
        marked == [days EXCEPT ![r.day].isCompleted = TRUE]
    IN /\ r.pc = "completeCommit"
       /\ days' = IF r.next \in r.locked
                  THEN [marked EXCEPT ![r.next].isUnlocked = TRUE]
                  ELSE marked
       /\ plan' = [plan EXCEPT !.progress = RoundPct(r.count, totalDays),
                               !.currentDay = Min(r.day + 1, totalDays),
                               !.isActive = (r.count < totalDays)]
       /\ reqs' = [reqs EXCEPT ![p] = Idle]
       /\ last' = Ok("completeDay", r.day, r.user)
       /\ UNCHANGED <<resourceVars, quizVars, interviewVars, overlap>>

\* dailyPlanService.unlockDailyPlan up to its update: the two reads and the gate
UnlockDailyPlanRead(p, d, u) ==
    /\ reqs[p].pc = "idle"
    /\ UNCHANGED <<planVars, resourceVars, quizVars, interviewVars, overlap>>
    /\ IF ~DayExists(d)
       THEN /\ last' = Err("unlockDay", d, u, 404, "NotFound")
            /\ UNCHANGED reqs
       ELSE IF plan.userId # u
       THEN /\ last' = Err("unlockDay", d, u, 403, "Forbidden")
            /\ UNCHANGED reqs
       ELSE IF PreviousDayBlocks(d)
       THEN /\ last' = Err("unlockDay", d, u, 400, "PrevNotCompleted")
            /\ UNCHANGED reqs
       ELSE /\ reqs' = [reqs EXCEPT ![p] = [Idle EXCEPT !.pc = "unlockWrite",
                                                        !.user = u,
                                                        !.day = d]]
            /\ UNCHANGED last

\* prisma.dailyPlan.update({ where: { id }, data: { isUnlocked: true } })
UnlockDailyPlanWrite(p) ==
    /\ reqs[p].pc = "unlockWrite"
    /\ UNCHANGED <<plan, resourceVars, quizVars, interviewVars, overlap>>
    /\ IF reqs[p].day \in reqs[p].gone
       THEN /\ last' = Err("unlockDay", reqs[p].day, reqs[p].user, 500, "Internal")
            /\ reqs' = [reqs EXCEPT ![p] = Idle]
            /\ UNCHANGED days
       ELSE /\ reqs[p].day \notin LockedByOthers(p)
            /\ days' = [days EXCEPT ![reqs[p].day].isUnlocked = TRUE]
            /\ last' = Ok("unlockDay", reqs[p].day, reqs[p].user)
            /\ reqs' = [reqs EXCEPT ![p] = Idle]

\* updateLearningPlanProgress up to its first write
ProgressRead(p, u, currentDay, progress) ==
    /\ reqs[p].pc = "idle"
    /\ UNCHANGED <<planVars, resourceVars, quizVars, interviewVars>>
    /\ IF ~plan.exists
       THEN /\ last' = Err("updateProgress", currentDay, u, 404, "NotFound")
            /\ UNCHANGED reqs
       ELSE IF plan.userId # u
       THEN /\ last' = Err("updateProgress", currentDay, u, 403, "Forbidden")
            /\ UNCHANGED reqs
       ELSE IF currentDay # Absent /\ (currentDay < 1 \/ currentDay > plan.durationDays)
       THEN /\ last' = Err("updateProgress", currentDay, u, 400, "Validation")
            /\ UNCHANGED reqs
       ELSE /\ reqs' = [reqs EXCEPT ![p] =
                           [Idle EXCEPT !.pc = IF currentDay # Absent /\ currentDay > plan.currentDay
                                               THEN "progressUnlock" ELSE "progressWrite",
                                        !.user = u,
                                        !.currentDay = currentDay,
                                        !.progress = progress]]
            /\ UNCHANGED last

UpdateProgressRead(p, u, currentDay, progress) ==
    /\ ProgressRead(p, u, currentDay, progress)
    /\ UNCHANGED overlap

\* no request is between two of its awaits
AtRest == \A q \in Procs : reqs[q].pc = "idle"

\* the same request, started while the plan is at rest and followed from there
FollowedUpdateProgressRead(p, u, currentDay, progress) ==
    /\ AtRest
    /\ ProgressRead(p, u, currentDay, progress)
    /\ overlap' = [plan |-> plan, days |-> days, ran |-> {<<p, currentDay, u>>}]

\* await unlockDailyPlan(id, progressData.currentDay): updateMany, committed at once
UpdateProgressUnlock(p) ==
    /\ reqs[p].pc = "progressUnlock"
    /\ reqs[p].currentDay \notin LockedByOthers(p)
    /\ days' = UnlockByDayNumber(days, reqs[p].currentDay)
    /\ reqs' = [reqs EXCEPT ![p].pc = "progressWrite"]
    /\ UNCHANGED <<plan, resourceVars, quizVars, interviewVars, overlap, last>>

\* prisma.learningPlan.update({ where: { id }, data: progressData })
UpdateProgressWrite(p) ==
    /\ reqs[p].pc = "progressWrite"
    /\ plan' = [plan EXCEPT
                  !.currentDay = IF reqs[p].currentDay = Absent THEN @ ELSE reqs[p].currentDay,
                  !.progress = IF reqs[p].progress = Absent THEN @ ELSE reqs[p].progress]
    /\ last' = Ok("updateProgress", reqs[p].currentDay, reqs[p].user)
    /\ reqs' = [reqs EXCEPT ![p] = Idle]
    /\ UNCHANGED <<days, resourceVars, quizVars, interviewVars, overlap>>

\* prisma.learningPlan.update rejects (the database fails the statement): the
\* catch block answers 500; the unlock before it was committed on its own
UpdateProgressWriteFails(p) ==
    /\ reqs[p].pc = "progressWrite"
    /\ last' = Err("updateProgress", reqs[p].currentDay, reqs[p].user, 500, "Internal")
    /\ reqs' = [reqs EXCEPT ![p] = Idle]
    /\ UNCHANGED <<planVars, resourceVars, quizVars, interviewVars, overlap>>

\* --------------------------------- createLearningPlan, statement by statement
\* prisma.$transaction(async (tx) => ...) is opened (one plan is modelled, so
\* a second creation does not start while one exists or is being created)
CreateLearningPlanBegin(p, u, durationDays) ==
    /\ reqs[p].pc = "idle"
    /\ ~plan.exists
    /\ \A q \in Procs : reqs[q].pc \notin {"createPlanRow", "createDay"}
    /\ reqs' = [reqs EXCEPT ![p] = [Idle EXCEPT !.pc = "createPlanRow",
                                                !.user = u,
                                                !.durationDays = durationDays]]
    /\ UNCHANGED <<planVars, resourceVars, quizVars, interviewVars, overlap, last>>

\* tx.learningPlan.create(...): the row is written inside the open transaction
CreatePlanRow(p) ==
    /\ reqs[p].pc = "createPlanRow"
    /\ reqs' = [reqs EXCEPT ![p].pc = "createDay", ![p].next = 1]
    /\ UNCHANGED <<planVars, resourceVars, quizVars, interviewVars, overlap, last>>

\* one turn of the loop: tx.dailyPlan.create({ dayNumber: day, ... })
CreateDayRow(p) ==
    /\ reqs[p].pc = "createDay"
    /\ reqs[p].next <= reqs[p].durationDays
    /\ reqs' = [reqs EXCEPT ![p].next = @ + 1]
    /\ UNCHANGED <<planVars, resourceVars, quizVars, interviewVars, overlap, last>>

CreateFailsKeepingRows(p) ==
    /\ reqs[p].pc \in {"createPlanRow", "createDay"}
    /\ IF reqs[p].pc = "createDay"
       THEN /\ plan' = [exists |-> TRUE, userId |-> reqs[p].user,
                        durationDays |-> reqs[p].durationDays,
                        isActive |-> TRUE, currentDay |-> 1, progress |-> 0]
            /\ days' = CreatedDays(reqs[p].next - 1)
       ELSE UNCHANGED planVars
    /\ last' = Err("createPlan", reqs[p].durationDays, reqs[p].user, 500, "Internal")
    /\ reqs' = [reqs EXCEPT ![p] = Idle]
    /\ UNCHANGED <<resourceVars, quizVars, interviewVars, overlap>>

\* a statement of the transaction rejects: the callback throws, Prisma rolls
\* the transaction back and the catch block answers 500
CreateFails(p) ==
    /\ reqs[p].pc \in {"createPlanRow", "createDay"}
    /\ last' = Err("createPlan", reqs[p].durationDays, reqs[p].user, 500, "Internal")
    /\ reqs' = [reqs EXCEPT ![p] = Idle]
    /\ UNCHANGED <<planVars, resourceVars, quizVars, interviewVars, overlap>>

\* the loop has ended: the transaction commits and its rows become visible
\* together (populateDailyPlans only reads)
CreateCommit(p) ==
    /\ reqs[p].pc = "createDay"
    /\ reqs[p].next > reqs[p].durationDays
    /\ plan' = [exists |-> TRUE, userId |-> reqs[p].user,
                durationDays |-> reqs[p].durationDays,
                isActive |-> TRUE, currentDay |-> 1, progress |-> 0]
    /\ days' = CreatedDays(reqs[p].durationDays)
    /\ last' = [Ok("createPlan", reqs[p].durationDays, reqs[p].user) EXCEPT !.status = 201]
    /\ reqs' = [reqs EXCEPT ![p] = Idle]
    /\ UNCHANGED <<resourceVars, quizVars, interviewVars, overlap>>

\* ------------------------------ interviewService, statement by statement
\* startInterview up to its update: findUnique and the three checks
StartInterviewRead(p, m, u) ==
    /\ reqs[p].pc = "idle"
    /\ UNCHANGED <<planVars, resourceVars, quizVars, interviewVars, overlap>>
    /\ IF m \notin DOMAIN mockInterviews
       THEN /\ last' = Err("startInterview", 0, NONE, 404, "NotFound")
            /\ UNCHANGED reqs
       ELSE IF mockInterviews[m].userId # u
       THEN /\ last' = Err("startInterview", 0, NONE, 403, "Forbidden")
            /\ UNCHANGED reqs
       ELSE IF mockInterviews[m].status # "SCHEDULED"
       THEN /\ last' = Err("startInterview", 0, NONE, 400, "BadStatus")
            /\ UNCHANGED reqs
       ELSE /\ reqs' = [reqs EXCEPT ![p] = [Idle EXCEPT !.pc = "startWrite",
                                                        !.user = u,
                                                        !.interview = m]]
            /\ UNCHANGED last

\* prisma.mockInterview.update({ where: { id }, data: { status: IN_PROGRESS, ... } })
StartInterviewWrite(p) ==
    /\ reqs[p].pc = "startWrite"
    /\ mockInterviews' = [mockInterviews EXCEPT ![reqs[p].interview].status = "IN_PROGRESS"]
    /\ last' = Ok("startInterview", 0, NONE)
    /\ reqs' = [reqs EXCEPT ![p] = Idle]
    /\ UNCHANGED <<planVars, resourceVars, quizVars, responses, templates, overlap>>

\* completeInterview up to its update: findUnique with the responses, the
\* three checks and the missing-answers check
CompleteInterviewRead(p, m, u) ==
    /\ reqs[p].pc = "idle"
    /\ UNCHANGED <<planVars, resourceVars, quizVars, interviewVars, overlap>>
    /\ IF m \notin DOMAIN mockInterviews
       THEN /\ last' = Err("completeInterview", 0, NONE, 404, "NotFound")
            /\ UNCHANGED reqs
       ELSE IF mockInterviews[m].userId # u
       THEN /\ last' = Err("completeInterview", 0, NONE, 403, "Forbidden")
            /\ UNCHANGED reqs
       ELSE IF mockInterviews[m].status # "IN_PROGRESS"
       THEN /\ last' = Err("completeInterview", 0, NONE, 400, "BadStatus")
            /\ UNCHANGED reqs
       ELSE IF {q \in Questions : ~Answered(m, q)} # {}
       THEN /\ last' = Err("completeInterview", 0, NONE, 400, "MissingAnswers")
            /\ UNCHANGED reqs
       ELSE /\ reqs' = [reqs EXCEPT ![p] = [Idle EXCEPT !.pc = "completeInterviewWrite",
                                                        !.user = u,
                                                        !.interview = m]]
            /\ UNCHANGED last

\* prisma.mockInterview.update({ where: { id }, data: { status: COMPLETED, isCompleted: true, ... } })
CompleteInterviewWrite(p) ==
    /\ reqs[p].pc = "completeInterviewWrite"
    /\ mockInterviews' = [mockInterviews EXCEPT ![reqs[p].interview].status = "COMPLETED",
                                                ![reqs[p].interview].isCompleted = TRUE]
    /\ last' = Ok("completeInterview", 0, NONE)
    /\ reqs' = [reqs EXCEPT ![p] = Idle]
    /\ UNCHANGED <<planVars, resourceVars, quizVars, responses, templates, overlap>>

\* saveInterviewResponse up to its write: ownership, status, and the
\* findFirst that decides between update and create
SaveInterviewResponseRead(p, m, u, q) ==
    /\ reqs[p].pc = "idle"
    /\ UNCHANGED <<planVars, resourceVars, quizVars, interviewVars, overlap>>
    /\ IF m \notin DOMAIN mockInterviews
       THEN /\ last' = Err("saveResponse", 0, NONE, 404, "NotFound")
            /\ UNCHANGED reqs
       ELSE IF mockInterviews[m].userId # u
       THEN /\ last' = Err("saveResponse", 0, NONE, 403, "Forbidden")
            /\ UNCHANGED reqs
       ELSE IF mockInterviews[m].status # "IN_PROGRESS"
       THEN /\ last' = Err("saveResponse", 0, NONE, 400, "BadStatus")
            /\ UNCHANGED reqs
       ELSE /\ reqs' = [reqs EXCEPT ![p] = [Idle EXCEPT !.pc = IF Answered(m, q)
                                                               THEN "saveUpdate"
                                                               ELSE "saveCreate",
                                                        !.user = u,
                                                        !.interview = m,
                                                        !.question = q]]
            /\ UNCHANGED last

\* prisma.interviewResponse.update({ where: { id: existingResponse.id }, ... })
SaveInterviewResponseUpdate(p) ==
    /\ reqs[p].pc = "saveUpdate"
    /\ last' = Ok("saveResponse", 0, NONE)
    /\ reqs' = [reqs EXCEPT ![p] = Idle]
    /\ UNCHANGED <<planVars, resourceVars, quizVars, interviewVars, overlap>>

\* prisma.interviewResponse.create(...): a new row with a new id; no unique
\* index on (mockInterviewId, questionId) stands in its way
SaveInterviewResponseCreate(p) ==
    LET m == reqs[p].interview
        q == reqs[p].question
    IN /\ reqs[p].pc = "saveCreate"
       /\ responses' = responses \cup {<<m, q, Cardinality(ResponsesOf(m, q)) + 1>>}
       /\ last' = Ok("saveResponse", 0, NONE)
       /\ reqs' = [reqs EXCEPT ![p] = Idle]
       /\ UNCHANGED <<planVars, resourceVars, quizVars, mockInterviews, templates, overlap>>

\* completeDailyPlan run alone on the rows st = [plan, days]: the rows it leaves
SerialComplete(st, d, u) ==
    IF \/ ~st.plan.exists
       \/ d \notin DOMAIN st.days
       \/ st.plan.userId # u
       \/ ~st.days[d].isUnlocked
       \/ ~AllResourcesCompleted(d, u)
       \/ ~QuizCompleted(d, u)
       \/ ~InterviewCompleted(d, u)
    THEN st
    ELSE LET marked == [st.days EXCEPT ![d].isCompleted = TRUE]
             totalDays == st.plan.durationDays
             unlocked == IF d < totalDays /\ (d + 1) \in DOMAIN marked
                         THEN [marked EXCEPT ![d + 1].isUnlocked = TRUE]
                         ELSE marked
             completedDaysCount ==
                 Cardinality({n \in DOMAIN unlocked : unlocked[n].isCompleted})
         IN [plan |-> [st.plan EXCEPT
                          !.progress = RoundPct(completedDaysCount, totalDays),
                          !.currentDay = Min(d + 1, totalDays),
                          !.isActive = (completedDaysCount < totalDays)],
             days |-> unlocked]

\* the rows left by the requests of ran, run one after the other in any order
RECURSIVE SerialOutcomes(_, _)
SerialOutcomes(st, ran) ==
    IF ran = {} THEN {st}
    ELSE UNION {SerialOutcomes(SerialComplete(st, r[2], r[3]), ran \ {r}) : r \in ran}

\* ------------------------------------------------------ specifications
\* the optional isActive field of the request body: absent, or a one-element tuple
IsActiveInputs == {<< >>, <<TRUE>>, <<FALSE>>}

Next ==
    \/ \E u \in Users, n \in Durations : CreateLearningPlan(u, n)
    \/ \E u \in Users, d \in DayNumbers : UnlockDailyPlan(d, u)
    \/ \E u \in Users, d \in DayNumbers : CompleteDailyPlan(d, u)
    \/ \E u \in Users, n \in Durations \cup {Absent}, a \in IsActiveInputs :
          UpdateLearningPlan(u, n, a)
    \/ \E u \in Users, c \in DayNumbers \cup {Absent, MaxDuration + 1},
          p \in ProgressInputs \cup {Absent} :
          UpdateLearningPlanProgress(u, c, p)

Spec == Init /\ [][Next]_vars

\* completeDailyPlan against the resource collaborator
NextResources ==
    \/ \E u \in Users, n \in GateDays : CreateLearningPlan(u, n)
    \/ \E u \in Users, d \in GateDays : CompleteDailyPlan(d, u)
    \/ \E d \in GateDays, ls \in SUBSET Resources, ps \in SUBSET Resources :
          AssignResourcesToDailyPlan(d, ls, ps)
    \/ \E r \in Resources, u \in Users : CompleteResource(r, u)

SpecResources == Init /\ [][NextResources]_vars

\* completeDailyPlan against the quiz collaborator
NextQuiz ==
    \/ \E u \in Users, n \in GateDays : CreateLearningPlan(u, n)
    \/ \E u \in Users, d \in GateDays : CompleteDailyPlan(d, u)
    \/ \E d \in GateDays : AddQuizToDailyPlan(d)
    \/ \E d \in GateDays, u \in Users, c \in BOOLEAN : RecordQuizAttempt(d, u, c)

SpecQuiz == Init /\ [][NextQuiz]_vars

\* completeDailyPlan against the mock-interview collaborator
NextInterview ==
    \/ \E u \in Users, n \in GateDays : CreateLearningPlan(u, n)
    \/ \E u \in Users, d \in GateDays : CompleteDailyPlan(d, u)
    \/ \E m \in Interviews, u \in Users : ScheduleInterview(m, u)
    \/ \E m \in Interviews, u \in Users : StartInterview(m, u)
    \/ \E m \in Interviews, u \in Users, q \in Questions : SaveInterviewResponse(m, u, q)
    \/ \E m \in Interviews, u \in Users : CompleteInterview(m, u)
    \/ \E d \in GateDays, m \in Interviews : LinkMockInterview(d, m)

SpecInterview == Init /\ [][NextInterview]_vars

\* completeDailyPlan of one user against all three collaborators at once
NextGates ==
    \/ \E n \in GateDays : CreateLearningPlan("u1", n)
    \/ \E d \in GateDays : CompleteDailyPlan(d, "u1")
    \/ \E d \in GateDays, ls \in SUBSET {"r1"} : AssignResourcesToDailyPlan(d, ls, {})
    \/ CompleteResource("r1", "u1")
    \/ \E d \in GateDays : AddQuizToDailyPlan(d)
    \/ \E d \in GateDays : RecordQuizAttempt(d, "u1", TRUE)
    \/ ScheduleInterview("m1", "u1")
    \/ StartInterview("m1", "u1")
    \/ \E q \in Questions : SaveInterviewResponse("m1", "u1", q)
    \/ CompleteInterview("m1", "u1")
    \/ \E d \in GateDays : LinkMockInterview(d, "m1")

SpecGates == Init /\ [][NextGates]_vars

\* concurrent updateLearningPlan requests of the owner on one plan
NextDurationRace ==
    \/ \E n \in Durations : CreateLearningPlan("u1", n)
    \/ \E p \in Procs, n \in Durations \cup {Absent}, a \in IsActiveInputs :
          UpdateLearningPlanRead(p, "u1", n, a)
    \/ \E p \in Procs : HandleDurationChangeTx(p)

SpecDurationRace == Init /\ [][NextDurationRace]_vars

\* concurrent completeDailyPlan requests of the owner on one plan
NextCompleteRace ==
    \/ \E n \in Durations : CreateLearningPlan("u1", n)
    \/ \E p \in Procs, d \in DayNumbers : RacingCompleteRead(p, d, "u1")
    \/ \E p \in Procs : CompleteMark(p)
    \/ \E p \in Procs : CompleteFindNext(p)
    \/ \E p \in Procs : CompleteUnlockNext(p)
    \/ \E p \in Procs : CompleteCount(p)
    \/ \E p \in Procs : CompleteCommit(p)

SpecCompleteRace == Init /\ [][NextCompleteRace]_vars

\* completeDailyPlan of the owner racing with the requests that change what
\* it gates on: resources, quiz and duration of the same plan
NextGateRace ==
    \/ \E n \in GateDays : CreateLearningPlan("u1", n)
    \/ \E p \in Procs, d \in GateDays : CompleteDailyPlanRead(p, d, "u1")
    \/ \E p \in Procs : CompleteMark(p)
    \/ \E p \in Procs : CompleteFindNext(p)
    \/ \E p \in Procs : CompleteUnlockNext(p)
    \/ \E p \in Procs : CompleteCount(p)
    \/ \E p \in Procs : CompleteCommit(p)
    \/ \E p \in Procs, n \in GateDays : UpdateLearningPlanRead(p, "u1", n, << >>)
    \/ \E p \in Procs : HandleDurationChangeTx(p)
    \/ \E d \in GateDays, ls \in SUBSET {"r1"} : AssignResourcesToDailyPlan(d, ls, {})
    \/ \E d \in GateDays : AddQuizToDailyPlan(d)

SpecGateRace == Init /\ [][NextGateRace]_vars

\* the engine operations of the owner on one plan, interleaved at their awaits
NextInterleaved ==
    \/ \E n \in GateDays : CreateLearningPlan("u1", n)
    \/ \E p \in Procs, n \in GateDays : UpdateLearningPlanRead(p, "u1", n, << >>)
    \/ \E p \in Procs : HandleDurationChangeTx(p)
    \/ \E p \in Procs, d \in GateDays : UnlockDailyPlanRead(p, d, "u1")
    \/ \E p \in Procs : UnlockDailyPlanWrite(p)
    \/ \E p \in Procs, d \in GateDays : CompleteDailyPlanRead(p, d, "u1")
    \/ \E p \in Procs : CompleteMark(p)
    \/ \E p \in Procs : CompleteFindNext(p)
    \/ \E p \in Procs : CompleteUnlockNext(p)
    \/ \E p \in Procs : CompleteCount(p)
    \/ \E p \in Procs : CompleteCommit(p)
    \/ \E p \in Procs, c \in GateDays : UpdateProgressRead(p, "u1", c, Absent)
    \/ \E p \in Procs : UpdateProgressUnlock(p)
    \/ \E p \in Procs : UpdateProgressWrite(p)

SpecInterleaved == Init /\ [][NextInterleaved]_vars

\* every operation that can touch a DailyPlan, by the owner, one at a time
NextDayMachine ==
    \/ \E n \in GateDays : CreateLearningPlan("u1", n)
    \/ \E d \in GateDays : UnlockDailyPlan(d, "u1")
    \/ \E d \in GateDays : CompleteDailyPlan(d, "u1")
    \/ \E c \in GateDays : UpdateProgress("u1", c, Absent)
    \/ \E n \in GateDays : UpdateLearningPlan("u1", n, << >>)
    \/ \E d \in GateDays : AssignResourcesToDailyPlan(d, {"r1"}, {})
    \/ \E d \in GateDays : AddQuizToDailyPlan(d)
    \/ \E d \in GateDays, t \in {"t1", NONE} : AddInterviewToDailyPlan(d, t)

SpecDayMachine == Init /\ [][NextDayMachine]_vars

\* the requests of the learning-plan and daily-plan routers that check the
\* plan's owner, as they arrive over HTTP (updateProgress behind its schema)
NextRequests ==
    \/ \E u \in Users, n \in Durations : CreateLearningPlan(u, n)
    \/ \E u \in Users, d \in DayNumbers : UnlockDailyPlan(d, u)
    \/ \E u \in Users, d \in DayNumbers : CompleteDailyPlan(d, u)
    \/ \E u \in Users, n \in Durations \cup {Absent} : UpdateLearningPlan(u, n, << >>)
    \/ \E u \in Users, c \in DayNumbers \cup {Absent, 0, MaxDuration + 1},
          p \in {Absent, 50} :
          UpdateProgress(u, c, p)
    \/ \E u \in Users : DeleteLearningPlan(u)
    \/ \E u \in Users : GetLearningPlanStats(u)

SpecRequests == Init /\ [][NextRequests]_vars

\* one updateProgress request at a time, cut at its awaits, whose plan update
\* may be rejected by the database
NextProgressFailure ==
    \/ \E u \in Users, n \in Durations : AtRest /\ CreateLearningPlan(u, n)
    \/ \E u \in Users, d \in DayNumbers : AtRest /\ CompleteDailyPlan(d, u)
    \/ \E p \in Procs, u \in Users, c \in DayNumbers \cup {Absent, MaxDuration + 1},
          pr \in {Absent, 50} :
          FollowedUpdateProgressRead(p, u, c, pr)
    \/ \E p \in Procs : UpdateProgressUnlock(p)
    \/ \E p \in Procs : UpdateProgressWrite(p)
    \/ \E p \in Procs : UpdateProgressWriteFails(p)

SpecProgressFailure == Init /\ [][NextProgressFailure]_vars

\* createLearningPlan cut at the statements of its transaction, any of which
\* may be rejected, next to the requests that read or remove the plan
NextCreateFailure ==
    \/ \E p \in Procs, u \in Users, n \in Durations : CreateLearningPlanBegin(p, u, n)
    \/ \E p \in Procs : CreatePlanRow(p)
    \/ \E p \in Procs : CreateDayRow(p)
    \/ \E p \in Procs : CreateFails(p)
    \/ \E p \in Procs : CreateCommit(p)
    \/ \E u \in Users : GetLearningPlanStats(u)
    \/ \E u \in Users, d \in DayNumbers : CompleteDailyPlan(d, u)
    \/ \E u \in Users : DeleteLearningPlan(u)

SpecCreateFailure == Init /\ [][NextCreateFailure]_vars

\* getLearningPlanStats next to the requests that change what it counts
NextStats ==
    \/ \E n \in GateDays : CreateLearningPlan("u1", n)
    \/ \E d \in GateDays : CompleteDailyPlan(d, "u1")
    \/ \E n \in GateDays : UpdateLearningPlan("u1", n, << >>)
    \/ \E d \in GateDays, ls \in SUBSET Resources, ps \in SUBSET Resources :
          AssignResourcesToDailyPlan(d, ls, ps)
    \/ \E u \in Users : GetLearningPlanStats(u)

SpecStats == Init /\ [][NextStats]_vars

\* the three resource routes documented as admin only
NextResourceAdmin ==
    \/ \E u \in Users, r \in NewResources, t \in Titles : CreateResource(u, r, t)
    \/ \E u \in Users, r \in NewResources, t \in Titles : UpdateResource(u, r, t)
    \/ \E u \in Users, r \in NewResources : DeleteResource(u, r)

SpecResourceAdmin == Init /\ [][NextResourceAdmin]_vars

\* the interview requests of one user on one interview, cut at their awaits
NextInterviewRace ==
    \/ \E m \in Interviews : ScheduleInterview(m, "u1")
    \/ \E p \in Procs, m \in Interviews : StartInterviewRead(p, m, "u1")
    \/ \E p \in Procs : StartInterviewWrite(p)
    \/ \E m \in Interviews, q \in Questions : SaveInterviewResponse(m, "u1", q)
    \/ \E p \in Procs, m \in Interviews : CompleteInterviewRead(p, m, "u1")
    \/ \E p \in Procs : CompleteInterviewWrite(p)

SpecInterviewRace == Init /\ [][NextInterviewRace]_vars

\* the interview requests of both users, one at a time
NextInterviewFlow ==
    \/ \E m \in Interviews, u \in Users : ScheduleInterview(m, u)
    \/ \E m \in Interviews, u \in Users : StartInterview(m, u)
    \/ \E m \in Interviews, u \in Users, q \in Questions : SaveInterviewResponse(m, u, q)
    \/ \E m \in Interviews, u \in Users : CompleteInterview(m, u)

SpecInterviewFlow == Init /\ [][NextInterviewFlow]_vars

\* saveInterviewResponse requests of the owner, cut at their awaits
NextResponseRace ==
    \/ \E m \in Interviews : ScheduleInterview(m, "u1")
    \/ \E m \in Interviews : StartInterview(m, "u1")
    \/ \E p \in Procs, m \in Interviews, q \in Questions :
          SaveInterviewResponseRead(p, m, "u1", q)
    \/ \E p \in Procs : SaveInterviewResponseUpdate(p)
    \/ \E p \in Procs : SaveInterviewResponseCreate(p)

SpecResponseRace == Init /\ [][NextResponseRace]_vars

\* only createPlan, unlockDay and completeDay
NextProgression ==
    \/ \E u \in Users, n \in Durations : CreateLearningPlan(u, n)
    \/ \E u \in Users, d \in DayNumbers : UnlockDailyPlan(d, u)
    \/ \E u \in Users, d \in DayNumbers : CompleteDailyPlan(d, u)

SpecProgression == Init /\ [][NextProgression]_vars

\* ================================================================ claims
IsRequest(r, op, d, u) == r.op = op /\ r.day = d /\ r.user = u

\* C1: a successful createPlan with durationDays >= 1 leaves exactly the
\* DailyPlan rows 1..durationDays, day 1 unlocked, all others locked, none
\* completed, and the plan at currentDay 1, progress 0, isActive true.
C1_CreatePlanShape ==
    (last.op = "createPlan" /\ last.status = 201) =>
        /\ plan.exists
        /\ plan.durationDays = last.day
        /\ DOMAIN days = 1 .. last.day
        /\ Cardinality(DOMAIN days) = last.day
        /\ \A n \in DOMAIN days :
              /\ days[n].isUnlocked = (n = 1)
              /\ ~days[n].isCompleted
        /\ plan.currentDay = 1
        /\ plan.progress = 0
        /\ plan.isActive

C1_Witness ==
    /\ last.op = "createPlan"
    /\ last.status = 201
    /\ last.day = MaxDuration
    /\ ~days[MaxDuration].isUnlocked

\* C2: after a successful completeDay on day N < durationDays, day N is
\* completed, day N+1 is unlocked and currentDay = N+1.
C2_CompleteUnlocksNext ==
    (last.op = "completeDay" /\ last.status = 200 /\ last.day < plan.durationDays) =>
        /\ days[last.day].isCompleted
        /\ (last.day + 1) \in DOMAIN days
        /\ days[last.day + 1].isUnlocked
        /\ plan.currentDay = last.day + 1

C2_Witness ==
    /\ last.op = "completeDay"
    /\ last.status = 200
    /\ last.day > 1
    /\ last.day < plan.durationDays
    /\ days[last.day + 1].isUnlocked

\* C3: unlockDay on day N > 1 whose day N-1 is not completed fails with
\* InvalidState (400) and changes no DailyPlan, so a locked day stays locked;
\* when day N-1 is completed (or N = 1) and the requester owns the plan, the
\* day gets isUnlocked = true.
C3_UnlockGate ==
    [][\A d \in DayNumbers, u \in Users :
          (IsRequest(last', "unlockDay", d, u) /\ DayExists(d)) =>
             IF d > 1 /\ ~((d - 1) \in DOMAIN days /\ days[d - 1].isCompleted)
             THEN /\ last'.status # 200
                  /\ days' = days
                  /\ (plan.userId = u => last'.status = 400 /\ last'.msg = "PrevNotCompleted")
             ELSE plan.userId = u =>
                     /\ last'.status = 200
                     /\ days' = [days EXCEPT ![d].isUnlocked = TRUE]
      ]_vars

C3_Witness ==
    /\ last.op = "unlockDay"
    /\ last.status = 400
    /\ last.msg = "PrevNotCompleted"
    /\ last.day > 1
    /\ ~days[last.day].isUnlocked
    /\ ~days[last.day - 1].isCompleted

\* C4: completeDay on a day with isUnlocked = false fails with InvalidState
\* (400, "cannot complete a locked day") whatever the resource, quiz and
\* interview gates evaluate to, and changes no DailyPlan or LearningPlan field.
C4_LockedDayRejected ==
    [][\A d \in GateDays, u \in Users :
          (IsRequest(last', "completeDay", d, u) /\ DayExists(d) /\ ~days[d].isUnlocked) =>
             /\ last'.status # 200
             /\ plan' = plan
             /\ days' = days
             /\ (plan.userId = u => last'.status = 400 /\ last'.msg = "Locked")
      ]_vars

C4_Witness ==
    /\ last.op = "completeDay"
    /\ last.status = 400
    /\ last.msg = "Locked"
    /\ ~days[last.day].isUnlocked
    /\ ~AllResourcesCompleted(last.day, last.user)
    /\ ~QuizCompleted(last.day, last.user)
    /\ ~InterviewCompleted(last.day, last.user)

\* the resources attached to day d, as learning resource, practice resource or both
AttachedResourceIds(d) == LearningResourceIds(d) \cup PracticeResourceIds(d)

\* C5: on an unlocked day whose quiz and interview gates hold, completeDay by
\* the owner succeeds if and only if every resource attached to the day
\* (learning, practice or both) is completed by the requester; otherwise it
\* fails with InvalidState and changes nothing.
C5_ResourceGate ==
    [][\A d \in GateDays, u \in Users :
          (/\ IsRequest(last', "completeDay", d, u)
           /\ DayExists(d)
           /\ plan.userId = u
           /\ days[d].isUnlocked
           /\ QuizCompleted(d, u)
           /\ InterviewCompleted(d, u)) =>
             IF AttachedResourceIds(d) = {r \in AttachedResourceIds(d) : <<u, r>> \in userResources}
             THEN last'.status = 200
             ELSE last'.status = 400 /\ plan' = plan /\ days' = days
      ]_vars

\* C6: if the day has a quiz, completeDay fails with InvalidState unless the
\* requester (not another user) has a completed attempt on it; a day without
\* a quiz passes the quiz gate.
C6_QuizGate ==
    [][\A d \in GateDays, u \in Users :
          (IsRequest(last', "completeDay", d, u) /\ DayExists(d) /\ plan.userId = u) =>
             LET ownCompleted == \E a \in quizAttempts :
                                    a.day = d /\ a.userId = u /\ a.isCompleted
             IN /\ (d \in quizzes /\ ~ownCompleted) =>
                       (last'.status = 400 /\ plan' = plan /\ days' = days)
                /\ (/\ days[d].isUnlocked
                    /\ AllResourcesCompleted(d, u)
                    /\ InterviewCompleted(d, u)
                    /\ (d \notin quizzes \/ ownCompleted)) => last'.status = 200
      ]_vars

C6_Witness ==
    /\ last.op = "completeDay"
    /\ last.status = 400
    /\ last.msg = "GatesNotMet"
    /\ plan.userId = last.user
    /\ last.day \in quizzes
    /\ \E a \in quizAttempts : a.day = last.day /\ a.userId # last.user /\ a.isCompleted
    /\ \E a \in quizAttempts : a.day = last.day /\ a.userId = last.user /\ ~a.isCompleted

\* C7: for every mock interview attached to the day, completeDay fails with
\* InvalidState unless that interview has isCompleted = true; only a day with
\* no attached mock interview passes the gate vacuously.
C7_InterviewGate ==
    [][\A d \in GateDays, u \in Users :
          (/\ IsRequest(last', "completeDay", d, u)
           /\ DayExists(d)
           /\ plan.userId = u
           /\ days[d].mockInterviewId # NoInterview
           /\ ~mockInterviews[days[d].mockInterviewId].isCompleted) =>
             (last'.status = 400 /\ plan' = plan /\ days' = days)
      ]_vars

\* C8: after any successful completeDay on the last day of the plan, the plan
\* has isActive = false and progress = 100.
C8_LastDayFinishesPlan ==
    (last.op = "completeDay" /\ last.status = 200 /\ last.day = plan.durationDays) =>
        (~plan.isActive /\ plan.progress = 100)

\* C9: in every reachable state 1 <= currentDay <= durationDays.
C9_CurrentDayInRange ==
    plan.exists => (1 <= plan.currentDay /\ plan.currentDay <= plan.durationDays)

CompletedDays == {n \in DOMAIN days : days[n].isCompleted}

\* C10: in every reachable state progress = round(100 * completedDays / durationDays).
C10_ProgressDerived ==
    plan.exists => plan.progress = RoundPct(Cardinality(CompletedDays), plan.durationDays)

\* C11: in every reachable state, also when updateLearningPlan requests on the
\* same plan run concurrently, the dayNumbers of the plan's DailyPlan rows are
\* exactly 1..durationDays (no gap; the row key excludes duplicates).
C11_ContiguousDays ==
    plan.exists => DOMAIN days = 1 .. plan.durationDays

\* what C12 compares: the isCompleted flags, progress, currentDay and isActive
Outcome(st) ==
    [completed |-> {n \in DOMAIN st.days : st.days[n].isCompleted},
     progress |-> st.plan.progress,
     currentDay |-> st.plan.currentDay,
     isActive |-> st.plan.isActive]

\* C12: when the completeDay requests that overlapped on a plan (at most two,
\* on the same day or on different days) have all ended, the isCompleted
\* flags, progress, currentDay and isActive are those of some serial
\* execution of these requests from the rows they started from.
C12_CompleteSerialized ==
    ((\A p \in Procs : reqs[p].pc = "idle") /\ overlap.ran # {} /\ overlap.plan.exists) =>
        Outcome([plan |-> plan, days |-> days]) \in
            {Outcome(st) : st \in SerialOutcomes([plan |-> overlap.plan,
                                                  days |-> overlap.days], overlap.ran)}
\* C13: in every interleaving with assignResourcesToDailyPlan,
\* addQuizToDailyPlan, changeDuration and other completeDay requests, a day is
\* committed as completed only if, in the state the commit applies to, the day
\* is unlocked and its resource, quiz and interview gates hold, and the
\* progress written is computed with the durationDays of that state.
C13_GateAndWriteTogether ==
    [][\A p \in Procs :
          (reqs[p].pc = "completeCommit" /\ reqs'[p].pc = "idle") =>
             /\ days[reqs[p].day].isUnlocked
             /\ AllResourcesCompleted(reqs[p].day, reqs[p].user)
             /\ QuizCompleted(reqs[p].day, reqs[p].user)
             /\ InterviewCompleted(reqs[p].day, reqs[p].user)
             /\ plan'.progress =
                    RoundPct(Cardinality({n \in DOMAIN days' : days'[n].isCompleted}),
                             plan.durationDays)
      ]_vars
\* C14: a successful changeDuration of the owner from D1 to D2 > D1 adds rows
\* exactly for the days D1+1..D2, all locked and not completed; to D2 < D1 it
\* removes exactly the rows with dayNumber > D2; in both cases the rows with
\* dayNumber <= min(D1, D2) keep isUnlocked and isCompleted, and durationDays
\* becomes D2.
C14_ChangeDurationFrame ==
    [][\A n \in Durations, u \in Users :
          (/\ IsRequest(last', "updatePlan", n, u)
           /\ plan.exists
           /\ plan.userId = u
           /\ n # plan.durationDays) =>
             LET D1 == plan.durationDays
                 D2 == n
             IN /\ last'.status = 200
                /\ plan'.durationDays = D2
                /\ D2 > D1 =>
                      /\ (DOMAIN days') \ (DOMAIN days) = (D1 + 1) .. D2
                      /\ (DOMAIN days) \ (DOMAIN days') = {}
                      /\ \A k \in (D1 + 1) .. D2 :
                            ~days'[k].isUnlocked /\ ~days'[k].isCompleted
                /\ D2 < D1 =>
                      DOMAIN days' = {k \in DOMAIN days : k <= D2}
                /\ \A k \in DOMAIN days :
                      k <= Min(D1, D2) =>
                         /\ k \in DOMAIN days'
                         /\ days'[k].isUnlocked = days[k].isUnlocked
                         /\ days'[k].isCompleted = days[k].isCompleted
      ]_vars

C14_Witness ==
    /\ last.op = "updatePlan"
    /\ last.status = 200
    /\ last.day = MaxDuration
    /\ plan.durationDays = MaxDuration
    /\ days[1].isCompleted
    /\ ~days[2].isUnlocked
    /\ ~days[MaxDuration].isUnlocked
\* C15: in every reachable state, under any sequence and interleaving of the
\* engine operations, every DailyPlan with isCompleted = true has
\* isUnlocked = true.
C15_CompletedImpliesUnlocked ==
    \A n \in DOMAIN days : days[n].isCompleted => days[n].isUnlocked

\* a completion whose row was deleted and created again (locked) in between
\* is rolled back, next to a completed day
C15_Witness ==
    /\ last.op = "completeDay"
    /\ last.status = 500
    /\ last.day \in DOMAIN days
    /\ ~days[last.day].isUnlocked
    /\ \E n \in DOMAIN days : days[n].isCompleted /\ days[n].isUnlocked
\* C16: no operation (unlockDay, completeDay, updateProgress, changeDuration,
\* assignResources, addQuiz, addInterview) changes isUnlocked or isCompleted
\* of a DailyPlan row that continues to exist from true to false.
C16_DayStateMonotonic ==
    [][\A n \in (DOMAIN days) \cap (DOMAIN days') :
          /\ days[n].isUnlocked => days'[n].isUnlocked
          /\ days[n].isCompleted => days'[n].isCompleted
      ]_vars

\* a completed day, with an interview template attached, survives the
\* duration change that removes the day after it
C16_Witness ==
    /\ last.op = "updatePlan"
    /\ last.status = 200
    /\ plan.durationDays = 1
    /\ plan.currentDay = 2
    /\ days[1].isCompleted
    /\ days[1].isUnlocked
    /\ \E t \in Templates : templates[t] = 1

\* C17: in a sequence of createPlan, unlockDay and completeDay calls only,
\* completeDay on a day N > 1 whose day N-1 is not completed is rejected with
\* InvalidState and changes nothing, because day N is still locked.
C17_InOrderCompletion ==
    [][\A d \in DayNumbers, u \in Users :
          (/\ IsRequest(last', "completeDay", d, u)
           /\ DayExists(d)
           /\ d > 1
           /\ ~days[d - 1].isCompleted) =>
             /\ ~days[d].isUnlocked
             /\ last'.status # 200
             /\ plan.userId = u => (last'.status = 400 /\ last'.msg = "Locked")
             /\ plan' = plan
             /\ days' = days
      ]_vars

\* a 3-day plan with only day 1 completed: completing day 3 is rejected
C17_Witness ==
    /\ last.op = "completeDay"
    /\ last.status = 400
    /\ last.msg = "Locked"
    /\ last.day = 3
    /\ days[1].isCompleted
    /\ ~days[2].isCompleted
    /\ ~days[3].isUnlocked

\* C18: in every state reachable by createPlan, changeDuration, unlockDay,
\* completeDay and updateProgress, every unlocked day N > 1 has day N-1
\* completed.
C18_UnlockedAfterPrevious ==
    \A n \in DOMAIN days :
        (n > 1 /\ days[n].isUnlocked) =>
            ((n - 1) \in DOMAIN days /\ days[n - 1].isCompleted)
\* C19: unlockDay, completeDay, updateProgress, updateLearningPlan
\* (changeDuration), deleteLearningPlan and computeStats, called on an
\* existing plan (day) by a requester who is not the plan's owner, fail with
\* Forbidden (403) and leave the LearningPlan and every DailyPlan unchanged.
C19_OwnershipCheck ==
    [][\A u \in Users :
          (/\ plan.exists
           /\ plan.userId # u
           /\ last'.user = u
           /\ \/ last'.op \in {"updatePlan", "deletePlan", "stats"}
              \/ last'.op = "updateProgress" /\ last'.msg # "ValidationFailed"
              \/ last'.op \in {"unlockDay", "completeDay"} /\ DayExists(last'.day)) =>
             /\ last'.status = 403
             /\ plan' = plan
             /\ days' = days
      ]_vars

C19_Witness ==
    /\ last.op = "deletePlan"
    /\ last.status = 403
    /\ plan.exists
    /\ plan.userId # last.user
    /\ days[1].isCompleted

\* C20: updateProgress with a currentDay outside [1, durationDays] of the
\* stored plan fails (Validation error, 400, for the owner) and changes
\* neither the plan nor any DailyPlan.
C20_CurrentDayValidated ==
    [][\A u \in Users, c \in 0 .. (MaxDuration + 1) :
          (/\ IsRequest(last', "updateProgress", c, u)
           /\ plan.exists
           /\ (c < 1 \/ c > plan.durationDays)) =>
             /\ last'.status # 200
             /\ plan.userId = u =>
                   (last'.status = 400 /\ last'.msg \in {"Validation", "ValidationFailed"})
             /\ plan' = plan
             /\ days' = days
      ]_vars

C20_Witness ==
    /\ last.op = "updateProgress"
    /\ last.status = 400
    /\ last.msg = "Validation"
    /\ plan.exists
    /\ plan.userId = last.user
    /\ last.day = plan.durationDays + 1
    /\ ~days[plan.durationDays].isUnlocked

\* C21: updateProgress of the owner with an in-range currentDay greater than
\* the stored currentDay unlocks exactly the day with that dayNumber, whether
\* or not the day before it is completed, changes no other day and stores the
\* new currentDay; with a currentDay not greater than the stored one it
\* changes no DailyPlan.
C21_ProgressUnlocksDay ==
    [][\A u \in Users, c \in DayNumbers :
          (/\ IsRequest(last', "updateProgress", c, u)
           /\ plan.exists
           /\ plan.userId = u
           /\ c <= plan.durationDays) =>
             /\ last'.status = 200
             /\ plan'.currentDay = c
             /\ c > plan.currentDay =>
                   /\ c \in DOMAIN days
                   /\ days' = [days EXCEPT ![c].isUnlocked = TRUE]
             /\ c <= plan.currentDay => days' = days
      ]_vars

\* day 3 unlocked by updateProgress while day 1 is not completed and day 2 is
\* still locked
C21_Witness ==
    /\ last.op = "updateProgress"
    /\ last.status = 200
    /\ last.day = 3
    /\ plan.currentDay = 3
    /\ days[3].isUnlocked
    /\ ~days[2].isUnlocked
    /\ ~days[1].isCompleted

\* C22: a failed updateProgress leaves the plan and every DailyPlan as they
\* were when the request started: when the update of the plan fails after the
\* day unlock was issued, the unlock is rolled back.
C22_ProgressAllOrNothing ==
    [][\A p \in Procs :
          (/\ reqs[p].pc = "progressWrite"
           /\ reqs'[p].pc = "idle"
           /\ last'.op = "updateProgress"
           /\ last'.status # 200) =>
             /\ plan' = overlap.plan
             /\ days' = overlap.days
      ]_vars

\* C23: createPlan is atomic: a creation that fails answers 500 and leaves
\* neither the LearningPlan row nor any DailyPlan row, and no request ever
\* sees a plan with other rows than those of the days 1..durationDays.
C23_CreateAtomic ==
    /\ [](plan.exists => DOMAIN days = 1 .. plan.durationDays)
    /\ [](~plan.exists => days = << >>)
    /\ [][(last'.op = "createPlan" /\ last'.status # 201) =>
             /\ last'.status = 500
             /\ ~plan'.exists
             /\ days' = << >>
         ]_vars

\* the creation of a 3-day plan has failed and left nothing behind
C23_Witness ==
    /\ last.op = "createPlan"
    /\ last.status = 500
    /\ last.day = 3
    /\ ~plan.exists
    /\ days = << >>

\* C24: getLearningPlanStats changes nothing and a successful call returns
\* totalDays = durationDays, completedDays = the number of completed days, and
\* resources.total = the number of learning plus practice attachments over
\* all days = videos + blogs + leetcode.
C24_StatsDerived ==
    [][last'.op = "stats" =>
          /\ UNCHANGED <<planVars, resourceVars, quizVars, interviewVars, requestVars>>
          /\ last'.status = 200 =>
                LET body == last'.body
                    attachments ==
                        Cardinality({r \in Resources : resources[r].learningPlanDayId \in DOMAIN days})
                        + Cardinality({r \in Resources : resources[r].practicePlanDayId \in DOMAIN days})
                IN /\ body.totalDays = plan.durationDays
                   /\ body.completedDays = Cardinality({n \in DOMAIN days : days[n].isCompleted})
                   /\ body.resources.total = attachments
                   /\ body.resources.total =
                         body.resources.videos + body.resources.blogs + body.resources.leetcode
      ]_vars

\* two leetcode attachments and one video: total 3, leetcode 2, videos 1,
\* on a plan with a completed day
C24_Witness ==
    /\ last.op = "stats"
    /\ last.status = 200
    /\ last.body.resources = [videos |-> 1, blogs |-> 0, leetcode |-> 2, total |-> 3]
    /\ last.body.completedDays = 1
    /\ last.body.totalDays = 2

\* C25: in every reachable state, under every interleaving of completeDay
\* with concurrent changeDuration, updateProgress and completeDay requests on
\* the plan, the stored progress lies in 0..100.
C25_ProgressInRange ==
    plan.exists => (0 <= plan.progress /\ plan.progress <= 100)

\* C26: the create, update and delete resource routes are admin only: a
\* request of a user whose role is not ADMIN is answered 403 and leaves the
\* Resource rows as they were; in particular POST /api/resources creates no row.
C26_CreateResourceAdminOnly ==
    [][\A u \in Users :
          (/\ last'.op \in {"createResource", "updateResource", "deleteResource"}
           /\ last'.user = u
           /\ ~IsAdmin(u)) =>
             /\ last'.status = 403
             /\ createdResources' = createdResources
      ]_vars

\* C27: completeDay of the owner on a day that is already completed (its
\* gates still holding) leaves currentDay, progress and isActive of the plan
\* and isUnlocked / isCompleted of every day as they were; in particular it
\* never decreases currentDay.
C27_CompleteIdempotent ==
    [][\A d \in DayNumbers, u \in Users :
          (/\ IsRequest(last', "completeDay", d, u)
           /\ DayExists(d)
           /\ plan.userId = u
           /\ days[d].isCompleted) =>
             /\ plan'.currentDay = plan.currentDay
             /\ plan'.progress = plan.progress
             /\ plan'.isActive = plan.isActive
             /\ \A n \in DOMAIN days :
                   /\ n \in DOMAIN days'
                   /\ days'[n].isUnlocked = days[n].isUnlocked
                   /\ days'[n].isCompleted = days[n].isCompleted
      ]_vars

\* C28: a MockInterview's status only moves SCHEDULED -> IN_PROGRESS
\* (startInterview) -> COMPLETED (completeInterview): a startInterview or
\* completeInterview that is not answered 200 changes no interview, no step
\* moves an interview out of COMPLETED or along another edge, and in every
\* reachable state isCompleted = true exactly when status = COMPLETED.
C28_InterviewStatusMachine ==
    /\ [](\A m \in DOMAIN mockInterviews :
             mockInterviews[m].isCompleted = (mockInterviews[m].status = "COMPLETED"))
    /\ [][/\ \A m \in DOMAIN mockInterviews :
                /\ m \in DOMAIN mockInterviews'
                /\ \/ mockInterviews'[m].status = mockInterviews[m].status
                   \/ /\ mockInterviews[m].status = "SCHEDULED"
                      /\ mockInterviews'[m].status = "IN_PROGRESS"
                      /\ last'.op = "startInterview"
                   \/ /\ mockInterviews[m].status = "IN_PROGRESS"
                      /\ mockInterviews'[m].status = "COMPLETED"
                      /\ last'.op = "completeInterview"
          /\ (last'.op \in {"startInterview", "completeInterview"} /\ last'.status # 200) =>
                /\ last'.status \in {400, 403, 404}
                /\ mockInterviews' = mockInterviews
       ]_vars

\* C29: completeInterview moves an interview to COMPLETED only if every
\* question of its template has a response recorded in that interview; a
\* request on an interview with an unanswered question is answered 400 and
\* the interview stays IN_PROGRESS with isCompleted = false.
C29_CompleteNeedsAllAnswers ==
    [][/\ \A m \in DOMAIN mockInterviews :
             (mockInterviews'[m].status = "COMPLETED" /\ mockInterviews[m].status # "COMPLETED") =>
                \A q \in Questions : Answered(m, q)
       /\ \A m \in DOMAIN mockInterviews :
             (/\ mockInterviews[m].status = "IN_PROGRESS"
              /\ \E q \in Questions : ~Answered(m, q)) =>
                /\ mockInterviews'[m].status = "IN_PROGRESS"
                /\ ~mockInterviews'[m].isCompleted
       /\ last'.msg = "MissingAnswers" =>
             /\ last'.op = "completeInterview"
             /\ last'.status = 400
             /\ mockInterviews' = mockInterviews
             /\ \E m \in DOMAIN mockInterviews :
                   /\ mockInterviews[m].status = "IN_PROGRESS"
                   /\ \E q \in Questions : ~Answered(m, q)
      ]_vars

\* completeInterview was refused on an interview with one of its two
\* questions answered
C29_Witness ==
    /\ last.op = "completeInterview"
    /\ last.status = 400
    /\ last.msg = "MissingAnswers"
    /\ "m1" \in DOMAIN mockInterviews
    /\ "m2" \notin DOMAIN mockInterviews
    /\ mockInterviews["m1"].status = "IN_PROGRESS"
    /\ ~mockInterviews["m1"].isCompleted
    /\ Answered("m1", "q1")
    /\ ~Answered("m1", "q2")

\* C30: there is at most one InterviewResponse row per (mockInterviewId,
\* questionId), under every interleaving of saveInterviewResponse requests,
\* two concurrent requests for the same interview and question included.
C30_OneResponsePerQuestion ==
    \A m \in Interviews, q \in Questions : Cardinality(ResponsesOf(m, q)) <= 1
====
